---- MODULE Spec2Model ----
(***************************************************************************)
(* Voice-command pipeline of Kenzku/audio-command: the browser-side        *)
(* CommandAnalyzer (transcribe -> classify with the LLM -> dispatch), and  *)
(* the Express handlers it talks to (transcribeAudio, translateAudio,      *)
(* POST /analyze-command).                                                 *)
(*                                                                         *)
(* Strings the code only copies around are TLA+ strings.  The classifier's *)
(* reply, which the code scans with two regular expressions and hands to   *)
(* JSON.parse, is a sequence of lexical tokens: the opening fence          *)
(* "```json\n", the closing fence "\n```", "{", "}", a member              *)
(* "key":"value", a key "key": whose value is an object, null, and prose.  *)
(***************************************************************************)
EXTENDS Integers, Sequences, FiniteSets, TLC

VARIABLES
  variant,                  \* which copy of CommandAnalyzer runs
  pc,                       \* where the analyzer's async call is suspended
  transcription,            \* const transcription (analyzeRecording / parameter)
  classifier,               \* how the LLM query of this run will settle
  llmData,                  \* what the fetch of /api/llm/query came back with
  parsedCommand,            \* const parsedCommand
  dispatched,               \* the case of executeCommand's switch that ran
  resultElement,            \* options.resultElement content
  statusElement,            \* options.statusElement.textContent
  loadingHidden,            \* options.loadingElement has class "hidden"
  transcribeButtonDisabled, \* #transcribeButton.disabled
  requests,                 \* the fetch() calls issued so far, in order
  handlers,                 \* backend: one record per Express request in flight
  tmpFiles,                 \* backend: files in os.tmpdir(), path -> content
  now,                      \* backend: Date.now()
  audioBlob,                \* recorder: let audioBlob
  mediaRecorder,            \* recorder: let mediaRecorder (0 while undefined)
  recorders,                \* the MediaRecorder objects created so far
  isRecording,              \* recorder: let isRecording
  audioChunks,              \* recorder: let audioChunks
  pendingStarts,            \* calls of startRecording awaiting getUserMedia
  analyzerInstalled,        \* window.voiceCommandAnalyzer is set
  analyses,                 \* the calls of window.voiceCommandAnalyzer so far
  runBlob,                  \* the audioBlob parameter of the analyzer's run
  runId,                    \* which call of the analyzer the run is (0: none)
  background,               \* runs of the analyzer suspended behind this one
  recorderAvailable,        \* voice commands: the recorder option is set
  isListening,              \* voice commands: let isListening
  commandMode,              \* voice commands: let commandMode
  commandModeActive,        \* main.js: let commandModeActive
  notifications,            \* the types passed to onCommandDetected so far
  voice,                    \* the voice-command handler that is running
  handled                   \* the calls of the voice-command handlers that ended

fvars == <<variant, classifier, pc, transcription, llmData, parsedCommand, dispatched,
           resultElement, statusElement, loadingHidden,
           transcribeButtonDisabled, requests>>
bvars == <<handlers, tmpFiles, now>>
recorderState == <<mediaRecorder, recorders, isRecording, audioChunks,
                   pendingStarts, analyzerInstalled, analyses>>
runState == <<runBlob, runId, background>>
rvars == <<audioBlob, recorderState, runState>>
vvars == <<recorderAvailable, isListening, commandMode, commandModeActive,
           notifications, voice, handled>>
vars == <<fvars, bvars, rvars, vvars>>

(***************************************************************************)
(* Bounds                                                                  *)
(***************************************************************************)
\* a classifier reply is a concatenation of at most MaxSegs segments
MaxSegs == 3

\* at most MaxRequests requests reach the Express handlers in a behaviour
MaxRequests == 2

\* Date.now() takes the values 0..MaxClock
MaxClock == 1

\* startRecording is called at most MaxRecordings times in a behaviour
MaxRecordings == 2

\* annyang recognizes at most MaxCommands phrases in a behaviour
MaxCommands == 2

\* onCommandDetected is called at most MaxNotifications times by the toggle
MaxNotifications == 4

(***************************************************************************)
(* JavaScript values                                                       *)
(***************************************************************************)
NoFields == <<>>
NoText == <<>>

Undefined == [type |-> "undefined", str |-> "", obj |-> NoFields, toks |-> NoText]

JSNull == [type |-> "null", str |-> "", obj |-> NoFields, toks |-> NoText]

\* a string the code copies verbatim
Str(s) == [type |-> "string", str |-> s, obj |-> NoFields, toks |-> NoText]

\* a string holding reply text (data.response or a slice of it)
Text(toks) == [type |-> "text", str |-> "", obj |-> NoFields, toks |-> toks]

Obj(f) == [type |-> "object", str |-> "", obj |-> f, toks |-> NoText]

\* property read v.k of a non-null value (destructuring in executeCommand)
Get(v, k) ==
  IF v.type = "object" /\ k \in DOMAIN v.obj THEN v.obj[k] ELSE Undefined

\* ToBoolean, as used by `!x`, `x || y` and `x && y`
Truthy(v) ==
  \/ v.type = "object"
  \/ v.type = "string" /\ v.str # ""
  \/ v.type = "text" /\ v.toks # NoText

\* a || b
OrElse(a, b) == IF Truthy(a) THEN a ELSE b

(***************************************************************************)
(* Reply tokens                                                            *)
(***************************************************************************)
FO == <<"fence_open", "", "">>   \* the text ```json\n
FC == <<"fence_close", "", "">>  \* the text \n```
LB == <<"{", "", "">>
RB == <<"}", "", "">>
NUL == <<"null", "", "">>
PROSE == <<"prose", "", "">>
KeyTok(k) == <<"key", k, "">>
PairTok(k, v) == <<"pair", k, v>>

\* o[k] = v on a plain object under construction
Put(o, k, v) == [x \in (DOMAIN o) \cup {k} |-> IF x = k THEN v ELSE o[x]]

ParseFail == [ok |-> FALSE, val |-> Undefined, next |-> 0]

RECURSIVE ParseValue(_, _)
RECURSIVE ParseMembers(_, _, _)
\* one JSON value starting at token i
ParseValue(toks, i) ==
  IF i > Len(toks) THEN ParseFail
  ELSE IF toks[i] = NUL THEN [ok |-> TRUE, val |-> JSNull, next |-> i + 1]
  ELSE IF toks[i] = LB THEN ParseMembers(toks, i + 1, NoFields)
  ELSE ParseFail

\* the members of an object up to its closing brace; a repeated key keeps the last
ParseMembers(toks, i, acc) ==
  IF i > Len(toks) THEN ParseFail
  ELSE IF toks[i] = RB THEN [ok |-> TRUE, val |-> Obj(acc), next |-> i + 1]
  ELSE IF toks[i][1] = "pair"
    THEN ParseMembers(toks, i + 1, Put(acc, toks[i][2], Str(toks[i][3])))
  ELSE IF toks[i][1] = "key"
    THEN LET r == ParseValue(toks, i + 1)
         IN IF r.ok THEN ParseMembers(toks, r.next, Put(acc, toks[i][2], r.val))
            ELSE ParseFail
  ELSE ParseFail

\* JSON.parse(text): ok = FALSE stands for the SyntaxError it throws
JSONParse(toks) ==
  LET r == ParseValue(toks, 1)
  IN IF r.ok /\ r.next = Len(toks) + 1
       THEN [ok |-> TRUE, val |-> r.val]
       ELSE [ok |-> FALSE, val |-> Undefined]

\* the least index >= from holding tok, or 0
FirstIndex(s, tok, from) ==
  LET hits == {i \in from..Len(s) : s[i] = tok}
  IN IF hits = {} THEN 0 ELSE CHOOSE i \in hits : \A j \in hits : i <= j

NoMatch == [found |-> FALSE, whole |-> NoText, group1 |-> Undefined]

\* response.match(/```json\n([\s\S]*?)\n```/): leftmost opening fence, then
\* the lazy group ends at the first closing fence after it
FencedMatch(reply) ==
  LET i == FirstIndex(reply, FO, 1)
      j == IF i = 0 THEN 0 ELSE FirstIndex(reply, FC, i + 1)
  IN IF j = 0 THEN NoMatch
     ELSE [found |-> TRUE, whole |-> SubSeq(reply, i, j),
           group1 |-> Text(SubSeq(reply, i + 1, j - 1))]

\* response.match(/{[\s\S]*?}/): leftmost "{", lazily up to the first "}"
BraceMatch(reply) ==
  LET i == FirstIndex(reply, LB, 1)
      j == IF i = 0 THEN 0 ELSE FirstIndex(reply, RB, i + 1)
  IN IF j = 0 THEN NoMatch
     ELSE [found |-> TRUE, whole |-> SubSeq(reply, i, j), group1 |-> Undefined]

\* the two patterns tried in the other order
JsonMatch_BraceFirst(reply) ==
  IF BraceMatch(reply).found THEN BraceMatch(reply) ELSE FencedMatch(reply)

\* const jsonMatch = fenced || brace
JsonMatch(reply) ==
  IF FencedMatch(reply).found THEN FencedMatch(reply) ELSE BraceMatch(reply)

\* jsonMatch[1] || jsonMatch[0]
MatchedText(m) == OrElse(m.group1, Text(m.whole)).toks

(***************************************************************************)
(* CommandAnalyzer.parseTranscriptionWithLLM, after the fetch settles      *)
(***************************************************************************)
\* the fallback with the reply where the transcript belongs
UnknownFromReply_ReplyAsContent(t, reply) ==
  Obj([commandType |-> Str("unknown"), command |-> Str("unknown"),
       content |-> Text(reply), rawLLMResponse |-> Text(reply)])

UnknownFromReply(t, reply) ==
  Obj([commandType |-> Str("unknown"), command |-> Str("unknown"),
       content |-> Str(t), rawLLMResponse |-> Text(reply)])

\* the catch block building the parse-failure record
UnknownFromError_AsParseFailure(t, message) == UnknownFromReply(t, NoText)

UnknownFromError(t, message) ==
  Obj([commandType |-> Str("unknown"), command |-> Str("unknown"),
       content |-> Str(t), error |-> Str(message)])

\* the record the method resolves to; data is how the fetch settled
ParseTranscriptionResult(t, data) ==
  IF data.kind = "network_error" THEN UnknownFromError(t, "Failed to fetch")
  ELSE IF data.kind = "http_error" THEN UnknownFromError(t, "LLM API error: 500")
  ELSE IF data.kind = "not_success"
    THEN UnknownFromError(t, "Failed to process command with LLM")
  ELSE LET m == JsonMatch(data.response)
       IN IF m.found
            THEN LET p == JSONParse(MatchedText(m))
                 IN IF p.ok THEN p.val ELSE UnknownFromReply(t, data.response)
            ELSE UnknownFromReply(t, data.response)

(***************************************************************************)
(* What the analyzer is given and what the servers can answer              *)
(***************************************************************************)
Variants == {"voice-command-ui", "audio-transcription-frontend"}

Transcripts == {"translate to Spanish: good morning", "asdkjasd"}

\* the segments replies are concatenated from: every token, and some phrases
Segments ==
  { <<FO>>, <<FC>>, <<LB>>, <<RB>>, <<NUL>>, <<PROSE>>,
    <<KeyTok("parameters")>>,
    <<PairTok("commandType", "help")>>,
    <<PairTok("commandType", "delete")>>,
    <<PairTok("content", "good morning")>>,
    <<LB, RB>>,
    <<LB, PairTok("commandType", "help"), RB>>,
    <<FO, LB, PairTok("commandType", "help"),
          PairTok("content", "good morning"), RB, FC>>,
    <<LB, PairTok("commandType", "help"), KeyTok("parameters"), LB, RB, RB>> }

RECURSIVE Flatten(_, _)
Flatten(f, n) == IF n = 0 THEN <<>> ELSE Flatten(f, n - 1) \o f[n]

\* every reply made of at most MaxSegs segments
ReplyShapes == [1..MaxSegs -> Segments \cup {<<>>}]

\* the ways the fetch of /api/llm/query fails
LLMFailures ==
  { [kind |-> "network_error", response |-> NoText],
    [kind |-> "http_error", response |-> NoText],
    [kind |-> "not_success", response |-> NoText] }

LLMReply(r) == [kind |-> "reply", response |-> r]

NoData == [kind |-> "none", response |-> NoText]

\* replies that answer the prompt: a record of the requested fields, written
\* the ways a chat model writes it
Absent == "<absent>"
CommandTypeTexts ==
  {Absent, "transcribe", "translate", "list_models", "help", "unknown", "delete"}
ContentTexts == {Absent, "", "good morning"}
TargetLanguageTexts == {Absent, "", "Spanish", "another language"}

Member(k, v) == IF v = Absent THEN <<>> ELSE <<PairTok(k, v)>>

RecordTokens(ct, c, tl) ==
  <<LB>> \o Member("commandType", ct) \o Member("content", c)
         \o Member("targetLanguage", tl) \o <<RB>>

ReplyStyles == {"fenced", "bare", "prose", "truncated", "nested", "null"}

Written(style, rec) ==
  CASE style = "fenced" -> <<PROSE, FO>> \o rec \o <<FC, PROSE>>
    [] style = "bare" -> <<PROSE>> \o rec
    [] style = "prose" -> <<PROSE>>
    [] style = "truncated" -> SubSeq(rec, 1, Len(rec) - 1)
    [] style = "nested" ->
         SubSeq(rec, 1, Len(rec) - 1) \o <<KeyTok("parameters"), LB, RB, RB>>
    [] style = "null" -> <<FO, NUL, FC>>

(***************************************************************************)
(* HTTP                                                                    *)
(***************************************************************************)
NoBody ==
  [success |-> "absent", error |-> Undefined, transcription |-> Undefined,
   originalTranscription |-> Undefined, translation |-> Undefined,
   targetLanguage |-> Undefined, models |-> "absent", response |-> Undefined]

\* how a fetch settles: rejected, or resolved with a status and a JSON body
NetworkError == [kind |-> "network_error", status |-> 0, body |-> NoBody]
Http(status, body) == [kind |-> "http", status |-> status, body |-> body]

\* response.ok
Ok(r) == r.kind = "http" /\ r.status >= 200 /\ r.status <= 299

NoRequest ==
  [endpoint |-> "none", method |-> "", audioData |-> Undefined,
   query |-> "", content |-> Undefined, targetLanguage |-> Undefined]

TranscribeRequest(base64Audio) ==
  [NoRequest EXCEPT !.endpoint = "/api/audio/transcribe", !.method = "POST",
                    !.audioData = Str(base64Audio)]

LLMQueryRequest(t) ==
  [NoRequest EXCEPT !.endpoint = "/api/llm/query", !.method = "POST", !.query = t]

\* the request body with the language fixed
TranslateRequest_AlwaysEnglish(content, lang) ==
  [NoRequest EXCEPT !.endpoint = "/api/audio/translate", !.method = "POST",
                    !.audioData = Str(""), !.content = content,
                    !.targetLanguage = Str("English")]

TranslateRequest(content, lang) ==
  [NoRequest EXCEPT !.endpoint = "/api/audio/translate", !.method = "POST",
                    !.audioData = Str(""), !.content = content,
                    !.targetLanguage = lang]

\* the models request sent as a POST
ModelsRequest_Post ==
  [NoRequest EXCEPT !.endpoint = "/api/audio/models", !.method = "POST"]

ModelsRequest ==
  [NoRequest EXCEPT !.endpoint = "/api/audio/models", !.method = "GET"]

(***************************************************************************)
(* Backend replies, as the handlers build them                             *)
(***************************************************************************)
\* transcribeAudio: res.status(200).json({success: true, transcription, ...})
TranscribeOkBody(text) ==
  [NoBody EXCEPT !.success = "true", !.transcription = text]

\* the catch blocks of the controllers: {success: false, error: error.message}
ErrorBody(message) == [NoBody EXCEPT !.success = "false", !.error = Str(message)]

\* translateAudio: const finalTargetLanguage = targetLanguage || 'English'
BackendFinalTargetLanguage(targetLanguage) == OrElse(targetLanguage, Str("English"))

\* translateAudio: res.status(200).json({success: true, originalTranscription, ...})
TranslateOkBody(text, translation, finalTargetLanguage) ==
  [NoBody EXCEPT !.success = "true", !.originalTranscription = text,
                 !.translation = translation,
                 !.targetLanguage = finalTargetLanguage]

\* getAvailableModels: res.status(200).json({models: AVAILABLE_MODELS})
ModelsBody == [NoBody EXCEPT !.models = "AVAILABLE_MODELS"]

UpstreamFailure == "Request failed with status code 500"

\* texts the chat completion may return as the translation
ChatTexts == {"buenos dias", ""}

\* how the analyzer's fetch of /transcribe can settle
TranscribeSettlements(req) ==
  IF ~Truthy(req.audioData)
    THEN {NetworkError, Http(400, ErrorBody("No audio data provided"))}
    ELSE {NetworkError, Http(500, ErrorBody(UpstreamFailure))}
         \cup {Http(200, TranscribeOkBody(Str(t))) : t \in Transcripts \cup {""}}

\* how the analyzer's fetch of /translate can settle (content is sent)
TranslateSettlements(req) ==
  {NetworkError, Http(500, ErrorBody(UpstreamFailure))}
  \cup {Http(200, TranslateOkBody(req.content, Str(tr),
                    BackendFinalTargetLanguage(req.targetLanguage))) :
          tr \in ChatTexts}

\* how the analyzer's fetch of /models can settle
ModelsSettlements ==
  {NetworkError, Http(500, ErrorBody("Failed to retrieve available models")),
   Http(200, ModelsBody)}

(***************************************************************************)
(* The page                                                                *)
(***************************************************************************)
Blank ==
  [view |-> "placeholder", text |-> Undefined, original |-> Undefined,
   originalLanguage |-> Undefined, translation |-> Undefined,
   target |-> Undefined, error |-> "", models |-> "absent"]

\* element.textContent = v
ShowText(v) == [Blank EXCEPT !.view = "text", !.text = v]

\* a value inside a template literal
Display(v) ==
  CASE v.type = "string" -> v.str
    [] v.type = "undefined" -> "undefined"
    [] v.type = "null" -> "null"
    [] OTHER -> "[object Object]"

\* `API error: ${response.status}`
ApiError(status) == IF status = 400 THEN "API error: 400" ELSE "API error: 500"

\* the message of the Error a failed fetch of the audio API ends in:
\* errorData.error || `API error: ${response.status}` when the status is not ok
FetchFailure(r) ==
  IF r.kind = "network_error" THEN "Failed to fetch"
  ELSE Display(OrElse(r.body.error, Str(ApiError(r.status))))

Blobs == {"none", "empty", "speech"}

\* reader.result.split(',')[1] of the blob's data URL
Base64(blob) == IF blob = "empty" THEN "" ELSE "UklGRg=="

\* no voice-command handler is running
NoVoice ==
  [pc |-> "idle", handler |-> "none", generic |-> FALSE, parsed |-> Undefined,
   branches |-> <<>>, since |-> 0]

PageInit ==
  /\ variant \in Variants
  /\ pc = "idle"
  /\ transcription = ""
  /\ llmData = NoData
  /\ parsedCommand = Undefined
  /\ dispatched = "none"
  /\ resultElement = Blank
  /\ statusElement = <<"Ready to record">>
  /\ loadingHidden = TRUE
  /\ transcribeButtonDisabled = TRUE
  /\ requests = <<>>
  /\ mediaRecorder = 0
  /\ recorders = <<>>
  /\ isRecording = FALSE
  /\ audioChunks = <<>>
  /\ pendingStarts = 0
  /\ analyses = <<>>
  /\ runBlob = "none"
  /\ runId = 0
  /\ background = <<>>
  /\ isListening = FALSE
  /\ commandMode = FALSE
  /\ commandModeActive = FALSE
  /\ notifications = <<>>
  /\ voice = NoVoice
  /\ handled = <<>>

\* the page once initCommandAnalyzer has installed window.voiceCommandAnalyzer,
\* before anything was recorded
FrontendInit ==
  /\ PageInit
  /\ analyzerInstalled = TRUE
  /\ audioBlob = "none"
  /\ recorderAvailable = TRUE

(***************************************************************************)
(* CommandAnalyzer.analyzeRecording: one action per stretch between awaits *)
(***************************************************************************)
\* the catch block of analyzeRecording without the finally block
RunFails_NoFinally(messageParts) ==
  /\ statusElement' = <<"Error: ">> \o messageParts
  /\ loadingHidden' = loadingHidden
  /\ pc' = "done"

\* the catch and finally blocks of analyzeRecording
RunFails(messageParts) ==
  /\ statusElement' = <<"Error: ">> \o messageParts
  /\ loadingHidden' = TRUE
  /\ pc' = "done"

\* analyzeRecording that does not await transcribeAudio before it classifies
AnalyzeRecording_NoAwait(blob) ==
  /\ pc = "idle"
  /\ IF blob = "none"
       THEN UNCHANGED <<pc, statusElement, loadingHidden, requests>>
       ELSE /\ statusElement' = <<"Analyzing recording for commands...">>
            /\ loadingHidden' = FALSE
            /\ requests' = requests \o <<TranscribeRequest(Base64(blob)),
                                         LLMQueryRequest("")>>
            /\ pc' = "transcribing"
  /\ UNCHANGED <<variant, classifier, transcription, llmData, parsedCommand,
                 dispatched, resultElement, transcribeButtonDisabled, bvars>>

\* analyzeRecording(audioBlob) up to the await of blobToBase64; the recorder's
\* variables are left to the caller
AnalyzeRecording(blob) ==
  /\ pc = "idle"
  /\ IF blob = "none"
       THEN UNCHANGED <<pc, statusElement, loadingHidden, requests>>
       ELSE /\ statusElement' = <<"Analyzing recording for commands...">>
            /\ loadingHidden' = FALSE
            /\ requests' = Append(requests, TranscribeRequest(Base64(blob)))
            /\ pc' = "transcribing"
  /\ UNCHANGED <<variant, classifier, transcription, llmData, parsedCommand,
                 dispatched, resultElement, transcribeButtonDisabled, bvars>>

\* transcribeAudio after its fetch settles, and analyzeRecording up to the
\* await of parseTranscriptionWithLLM, which runs up to its own fetch
TranscribeReturns(r) ==
  /\ pc = "transcribing"
  /\ IF ~Ok(r)
       THEN /\ RunFails(<<"Failed to transcribe audio: ", FetchFailure(r)>>)
            /\ UNCHANGED <<transcription, resultElement, requests>>
     ELSE IF r.body.success # "true" \/ ~Truthy(r.body.transcription)
       THEN /\ RunFails(<<"Failed to transcribe audio: ",
                          "Transcription failed or returned empty result">>)
            /\ UNCHANGED <<transcription, resultElement, requests>>
     ELSE /\ transcription' = r.body.transcription.str
          /\ resultElement' =
               IF variant = "voice-command-ui"
                 THEN ShowText(r.body.transcription) ELSE resultElement
          /\ requests' = Append(requests, LLMQueryRequest(r.body.transcription.str))
          /\ pc' = "classifying"
          /\ UNCHANGED <<statusElement, loadingHidden>>
  /\ UNCHANGED <<variant, classifier, llmData, parsedCommand, dispatched,
                 transcribeButtonDisabled, bvars, rvars, vvars>>

\* parseTranscriptionWithLLM after its fetch settles: it returns its record
ClassifyReturns ==
  /\ pc = "classifying"
  /\ llmData' = classifier
  /\ parsedCommand' = ParseTranscriptionResult(transcription, classifier)
  /\ pc' = "classified"
  /\ UNCHANGED <<variant, classifier, transcription, dispatched, resultElement,
                 statusElement, loadingHidden, transcribeButtonDisabled,
                 requests, bvars, rvars, vvars>>

\* the switch with `default:` falling into the help case
CommandBranch_DefaultHelp(v, commandType) ==
  IF commandType = Str("transcribe") THEN "transcribe"
  ELSE IF commandType = Str("translate") /\ v = "voice-command-ui" THEN "translate"
  ELSE IF commandType = Str("list_models") THEN "list_models"
  ELSE IF commandType = Str("unknown") THEN "unknown"
  ELSE "help"

\* the case of the switch in executeCommand that a commandType selects
CommandBranch(v, commandType) ==
  IF commandType = Str("transcribe") THEN "transcribe"
  ELSE IF commandType = Str("translate") /\ v = "voice-command-ui" THEN "translate"
  ELSE IF commandType = Str("list_models") THEN "list_models"
  ELSE IF commandType = Str("help") THEN "help"
  ELSE "unknown"

\* executeTranslateCommand without the default
FinalTargetLanguage_NoDefault(targetLanguage) == targetLanguage

\* executeTranslateCommand: const finalTargetLanguage = targetLanguage || 'English'
FinalTargetLanguage(targetLanguage) == OrElse(targetLanguage, Str("English"))

\* executeTranscribeCommand writing the content whatever it is
ExecuteTranscribeCommand_Always(content, current) == ShowText(content)

\* executeTranscribeCommand(content): what the result element holds afterwards,
\* current being what it held before
ExecuteTranscribeCommand(content, current) ==
  IF Truthy(content) THEN ShowText(content) ELSE current

\* #transcribeButton.disabled once the switch of executeCommand has completed
ButtonAfterSwitch ==
  IF variant = "voice-command-ui" THEN FALSE ELSE transcribeButtonDisabled

\* executeCommand returns normally
Completes(result, status) ==
  /\ resultElement' = result
  /\ statusElement' = status
  /\ transcribeButtonDisabled' = ButtonAfterSwitch
  /\ loadingHidden' = TRUE
  /\ pc' = "done"

\* executeCommand(record) up to the first await of a fetch, or to its end.
\* loadingHidden is set by the finally block of analyzeRecording; the element
\* is hidden already when executeCommand is called on its own.
ExecuteCommand(record) ==
  LET content == Get(record, "content")
      branch == CommandBranch(variant, Get(record, "commandType"))
      lang == FinalTargetLanguage(Get(record, "targetLanguage"))
  IN /\ dispatched' = branch
     /\ CASE branch = "transcribe" ->
               /\ Completes(ExecuteTranscribeCommand(content, resultElement),
                            <<"Transcription complete">>)
               /\ UNCHANGED requests
          [] branch = "translate" ->
               IF ~Truthy(content)
                 THEN /\ Completes(resultElement,
                                   <<"Error: No content provided for translation">>)
                      /\ UNCHANGED requests
                 ELSE /\ statusElement' = <<"Translating to ", Display(lang), "...">>
                      /\ requests' = Append(requests, TranslateRequest(content, lang))
                      /\ pc' = "translating"
                      /\ UNCHANGED <<resultElement, loadingHidden,
                                     transcribeButtonDisabled>>
          [] branch = "list_models" ->
               /\ statusElement' = <<"Fetching available models...">>
               /\ requests' = Append(requests, ModelsRequest)
               /\ pc' = "listing"
               /\ UNCHANGED <<resultElement, loadingHidden, transcribeButtonDisabled>>
          [] branch = "help" ->
               /\ Completes([Blank EXCEPT !.view = "help"],
                            <<"Showing help information">>)
               /\ UNCHANGED requests
          [] branch = "unknown" ->
               /\ Completes(IF variant = "audio-transcription-frontend"
                               /\ Truthy(content)
                              THEN ShowText(content) ELSE resultElement,
                            <<"Transcription complete">>)
               /\ UNCHANGED requests

\* analyzeRecording once parseTranscriptionWithLLM has returned
Dispatch ==
  /\ pc = "classified"
  /\ IF ~Truthy(parsedCommand)
       THEN /\ RunFails(<<"Failed to parse command from transcription">>)
            /\ UNCHANGED <<dispatched, resultElement, transcribeButtonDisabled,
                           requests>>
       ELSE ExecuteCommand(parsedCommand)
  /\ UNCHANGED <<variant, classifier, transcription, llmData, parsedCommand, bvars, rvars, vvars>>

\* the checks of the response without the one on data.translation
TranslationFailure_AcceptsEmpty(r) ==
  IF ~Ok(r) THEN FetchFailure(r)
  ELSE IF r.body.success # "true"
    THEN "Translation failed or returned empty result"
  ELSE ""

\* the message of the Error executeTranslateCommand throws on the settled
\* fetch r, "" when it throws none
TranslationFailure(r) ==
  IF ~Ok(r) THEN FetchFailure(r)
  ELSE IF r.body.success # "true" \/ ~Truthy(r.body.translation)
    THEN "Translation failed or returned empty result"
  ELSE ""

\* executeTranslateCommand after its fetch settles, then the rest of the run
TranslateReturns(r) ==
  LET req == requests[Len(requests)]
      failure == TranslationFailure(r)
      target == OrElse(r.body.targetLanguage, req.targetLanguage)
  IN /\ pc = "translating"
     /\ req.endpoint = "/api/audio/translate"
     /\ IF failure # ""
          THEN Completes([Blank EXCEPT !.view = "translation_error",
                                       !.original = req.content,
                                       !.error = failure],
                         <<"Error: ", failure>>)
          ELSE Completes([Blank EXCEPT !.view = "translation",
                            !.originalLanguage = Str("detected language"),
                            !.original = OrElse(r.body.originalTranscription,
                                                req.content),
                            !.target = target,
                            !.translation = r.body.translation],
                         <<"Translation to ", Display(target), " complete">>)
     /\ UNCHANGED <<variant, classifier, transcription, llmData, parsedCommand,
                    dispatched, requests, bvars, rvars, vvars>>

\* executeListModelsCommand after its fetch settles, then the rest of the run
ListModelsReturns(r) ==
  /\ pc = "listing"
  /\ IF ~Ok(r)
       THEN /\ RunFails(<<IF r.kind = "network_error" THEN "Failed to fetch"
                          ELSE ApiError(r.status)>>)
            /\ UNCHANGED <<resultElement, transcribeButtonDisabled>>
       ELSE Completes([Blank EXCEPT !.view = "models", !.models = r.body.models],
                      <<"Models fetched successfully">>)
  /\ UNCHANGED <<variant, classifier, transcription, llmData, parsedCommand,
                 dispatched, requests, bvars, rvars, vvars>>

(***************************************************************************)
(* Specifications                                                          *)
(***************************************************************************)
BackendIdle ==
  /\ handlers = <<>>
  /\ tmpFiles = <<>>
  /\ now = 0

\* a recording is analyzed; the classifier answers the prompt in some style
Init ==
  /\ FrontendInit
  /\ BackendIdle
  /\ \/ classifier \in LLMFailures
     \/ \E ct \in CommandTypeTexts, c \in ContentTexts,
           tl \in TargetLanguageTexts, style \in ReplyStyles :
          classifier = LLMReply(Written(style, RecordTokens(ct, c, tl)))

StartAnalysis ==
  /\ \E blob \in Blobs : AnalyzeRecording(blob)
  /\ UNCHANGED <<rvars, vvars>>

TranscriptionArrives ==
  /\ pc = "transcribing"
  /\ \E r \in TranscribeSettlements(requests[Len(requests)]) : TranscribeReturns(r)

TranslationArrives ==
  /\ pc = "translating"
  /\ \E r \in TranslateSettlements(requests[Len(requests)]) : TranslateReturns(r)

ModelsArrive == \E r \in ModelsSettlements : ListModelsReturns(r)

Next ==
  \/ StartAnalysis
  \/ TranscriptionArrives
  \/ ClassifyReturns
  \/ Dispatch
  \/ TranslationArrives
  \/ ModelsArrive

Spec == Init /\ [][Next]_vars

\* parseTranscriptionWithLLM called with a transcript, over every reply text
ParseTranscriptionWithLLM(t) ==
  /\ pc = "idle"
  /\ transcription' = t
  /\ requests' = Append(requests, LLMQueryRequest(t))
  /\ pc' = "classifying"
  /\ UNCHANGED <<variant, classifier, llmData, parsedCommand, dispatched,
                 resultElement, statusElement, loadingHidden,
                 transcribeButtonDisabled, bvars, rvars, vvars>>

InitResolve ==
  /\ FrontendInit
  /\ BackendIdle
  /\ \/ classifier \in LLMFailures
     \/ \E f \in ReplyShapes : classifier = LLMReply(Flatten(f, MaxSegs))

CallResolve == \E t \in Transcripts : ParseTranscriptionWithLLM(t)

NextResolve == CallResolve \/ ClassifyReturns

SpecResolve == InitResolve /\ [][NextResolve]_vars

(***************************************************************************)
(* The Express handlers: transcribeAudio, translateAudio, /analyze-command *)
(***************************************************************************)
\* a file of os.tmpdir(): `${prefix}-${Date.now()}.wav`
TempFilePath(prefix, stamp) == [prefix |-> prefix, stamp |-> stamp]
NoPath == TempFilePath("", 0)

\* fs.writeFileSync(path, data): creates the file or replaces its content
WriteFile(files, path, data) ==
  [f \in (DOMAIN files) \cup {path} |-> IF f = path THEN data ELSE files[f]]

\* fs.unlinkSync(path) on an existing file
Unlink(files, path) == [f \in (DOMAIN files) \ {path} |-> files[f]]

NoResponse == [kind |-> "none", status |-> 0, body |-> NoBody]

\* one call of a handler: its req, its locals, where it waits, what it sent
NewHandler(req, client) ==
  [endpoint |-> req.endpoint, client |-> client, body |-> req, pc |-> "start",
   tempFilePath |-> NoPath, transcription |-> Undefined,
   finalTargetLanguage |-> Undefined, messages |-> <<>>,
   response |-> NoResponse]

\* res.status(status).json(body)
Responds(h, status, body) ==
  [h EXCEPT !.pc = "responded", !.response = Http(status, body)]

\* POST /analyze-command: res.json({transcription}) and {error, details}
AnalyzeOkBody(text) == [NoBody EXCEPT !.transcription = text]
AnalyzeErrorBody(message) == [NoBody EXCEPT !.error = Str(message)]

\* the body of the error reply of the endpoint's catch block or guard
FailureBody(endpoint, message) ==
  IF endpoint = "/analyze-command" THEN AnalyzeErrorBody(message)
  ELSE ErrorBody(message)

\* the prefix of the endpoint's temporary file name
TempPrefix(endpoint) ==
  IF endpoint = "/analyze-command" THEN "voice-command" ELSE "audio"

\* the handler writes the decoded audio to its temporary file and posts it
\* to the speech-to-text API
WritesAudio(h) ==
  LET path == TempFilePath(TempPrefix(h.endpoint), now)
  IN /\ tmpFiles' = WriteFile(tmpFiles, path,
                                [data |-> h.body.audioData,
                                 writer |-> Len(handlers) + 1])
     /\ handlers' = Append(handlers, [h EXCEPT !.pc = "speech_to_text",
                                               !.tempFilePath = path])

\* the handler without its guard on audioData
TranscribeAudioStarts_NoGuard(h) == WritesAudio(h)

\* transcribeAudio and POST /analyze-command up to their await
TranscribeAudioStarts(h) ==
  IF ~Truthy(h.body.audioData)
    THEN /\ handlers' = Append(handlers,
              Responds(h, 400, FailureBody(h.endpoint, "No audio data provided")))
         /\ UNCHANGED tmpFiles
    ELSE WritesAudio(h)

\* translateAudio looking at audioData before content
TranslateAudioStarts_AudioFirst(h) ==
  LET t == [h EXCEPT !.finalTargetLanguage =
                        BackendFinalTargetLanguage(h.body.targetLanguage)]
  IN IF Truthy(t.body.audioData) THEN WritesAudio(t)
     ELSE IF Truthy(t.body.content)
       THEN /\ handlers' = Append(handlers,
                 [t EXCEPT !.pc = "chat", !.transcription = t.body.content])
            /\ UNCHANGED tmpFiles
     ELSE /\ handlers' = Append(handlers,
               Responds(t, 400, ErrorBody("Either audio data or content must be provided")))
          /\ UNCHANGED tmpFiles

\* translateAudio up to its first await
TranslateAudioStarts(h) ==
  LET t == [h EXCEPT !.finalTargetLanguage =
                        BackendFinalTargetLanguage(h.body.targetLanguage)]
  IN IF Truthy(t.body.content)
       THEN /\ handlers' = Append(handlers,
                 [t EXCEPT !.pc = "chat", !.transcription = t.body.content])
            /\ UNCHANGED tmpFiles
     ELSE IF Truthy(t.body.audioData) THEN WritesAudio(t)
     ELSE /\ handlers' = Append(handlers,
               Responds(t, 400, ErrorBody("Either audio data or content must be provided")))
          /\ UNCHANGED tmpFiles

\* getAvailableModels: it answers from AVAILABLE_MODELS and awaits nothing
GetAvailableModels(h) ==
  /\ handlers' = Append(handlers, Responds(h, 200, ModelsBody))
  /\ UNCHANGED tmpFiles

\* getLLMResponse: the system prompt built from the required swaggerDocs
SystemPrompt == "You are an AI assistant ... swaggerDocs ..."

\* the messages that also carry the queries of the calls handled before
GatewayMessages_WithHistory(message) ==
  <<[role |-> "system", content |-> SystemPrompt]>>
  \o [k \in 1..Len(handlers) |-> [role |-> "user", content |-> handlers[k].body.query]]
  \o <<[role |-> "user", content |-> message]>>

\* getLLMResponse: the messages of its post to the chat-completion gateway
GatewayMessages(message) ==
  <<[role |-> "system", content |-> SystemPrompt],
    [role |-> "user", content |-> message]>>

\* queryLLM up to the await in getLLMResponse
QueryLLMStarts(h) ==
  /\ handlers' = Append(handlers,
        IF h.body.query = ""
          THEN Responds(h, 400, ErrorBody("No query provided"))
          ELSE [h EXCEPT !.pc = "llm", !.messages = GatewayMessages(h.body.query)])
  /\ UNCHANGED tmpFiles

\* res.status(200).json({success: true, response: llmResponse.result, ...})
QueryOkBody(result) == [NoBody EXCEPT !.success = "true", !.response = result]

\* the await of the gateway post settles in getLLMResponse; result is
\* choices[0].message.content, or Undefined when axios rejects
GatewayReturns(i, result) ==
  LET h == handlers[i]
  IN /\ h.pc = "llm"
     /\ handlers' = [handlers EXCEPT ![i] =
          IF result = Undefined
            THEN Responds(h, 500, ErrorBody("Failed to get LLM response: " \o UpstreamFailure))
            ELSE Responds(h, 200, QueryOkBody(result))]
     /\ UNCHANGED <<tmpFiles, now>>

\* Express routes a request to its handler, which runs to its first await
Receive(req, client) ==
  /\ Len(handlers) < MaxRequests
  /\ IF req.endpoint = "/api/audio/translate"
       THEN TranslateAudioStarts(NewHandler(req, client))
     ELSE IF req.endpoint = "/api/audio/models"
       THEN GetAvailableModels(NewHandler(req, client))
     ELSE IF req.endpoint = "/api/llm/query"
       THEN QueryLLMStarts(NewHandler(req, client))
     ELSE TranscribeAudioStarts(NewHandler(req, client))
  /\ UNCHANGED now

EnoentMessage == "ENOENT: no such file or directory, unlink"

\* the await of the speech-to-text post settles in handler i; text is
\* response.data.text, or Undefined when axios rejects
SpeechToTextReturns(i, text) ==
  LET h == handlers[i]
  IN /\ h.pc = "speech_to_text"
     /\ IF text = Undefined
          THEN /\ handlers' = [handlers EXCEPT ![i] =
                    Responds(h, 500, FailureBody(h.endpoint, UpstreamFailure))]
               /\ UNCHANGED tmpFiles
        ELSE IF h.tempFilePath \notin DOMAIN tmpFiles
          THEN /\ handlers' = [handlers EXCEPT ![i] =
                    Responds(h, 500, FailureBody(h.endpoint, EnoentMessage))]
               /\ UNCHANGED tmpFiles
        ELSE /\ tmpFiles' = Unlink(tmpFiles, h.tempFilePath)
             /\ handlers' = [handlers EXCEPT ![i] =
                  IF h.endpoint = "/api/audio/translate"
                    THEN [h EXCEPT !.pc = "chat", !.transcription = text]
                  ELSE IF h.endpoint = "/analyze-command"
                    THEN Responds(h, 200, AnalyzeOkBody(text))
                  ELSE Responds(h, 200, TranscribeOkBody(text))]
     /\ UNCHANGED now

\* the await of the chat completion settles in translateAudio; translation is
\* choices[0].message.content, or Undefined when axios rejects
ChatCompletionReturns(i, translation) ==
  LET h == handlers[i]
  IN /\ h.pc = "chat"
     /\ handlers' = [handlers EXCEPT ![i] =
          IF translation = Undefined
            THEN Responds(h, 500, ErrorBody(UpstreamFailure))
            ELSE Responds(h, 200, TranslateOkBody(h.transcription, translation,
                                                  h.finalTargetLanguage))]
     /\ UNCHANGED <<tmpFiles, now>>

\* Date.now() advances
Tick ==
  /\ now < MaxClock
  /\ now' = now + 1
  /\ UNCHANGED <<handlers, tmpFiles>>

(***************************************************************************)
(* The translate endpoint with its callers                                 *)
(***************************************************************************)
SampleAudio == Str("UklGRg==")

\* requests sent to the API without the page
ClientRequests ==
  { [NoRequest EXCEPT !.endpoint = e, !.method = "POST", !.audioData = a] :
      e \in {"/api/audio/transcribe", "/analyze-command", "/api/audio/translate"},
      a \in {Undefined, SampleAudio} }
  \cup
  { [NoRequest EXCEPT !.endpoint = "/api/audio/transcribe", !.method = "POST",
                      !.audioData = Str("")] }
  \cup
  { [NoRequest EXCEPT !.endpoint = "/api/audio/translate", !.method = "POST",
                      !.content = Str("good morning"),
                      !.targetLanguage = IF tl = Absent THEN Undefined ELSE Str(tl)] :
      tl \in TargetLanguageTexts }
  \cup
  { [NoRequest EXCEPT !.endpoint = "/api/audio/translate", !.method = "POST",
                      !.audioData = SampleAudio,
                      !.content = Str("good morning")] }

\* the Translate records executeCommand may be given
TranslateIntents ==
  { JSONParse(RecordTokens("translate", c, tl)).val :
      c \in ContentTexts, tl \in TargetLanguageTexts }

\* what the speech-to-text post and the chat completion may settle with
SpeechTexts == {Undefined, Str("good morning")}
Translations == {Undefined} \cup {Str(t) : t \in ChatTexts}

\* executeCommand(command) called with a Translate record
CallExecuteCommand(record) ==
  /\ pc = "idle"
  /\ parsedCommand' = record
  /\ ExecuteCommand(record)
  /\ UNCHANGED <<variant, classifier, transcription, llmData, bvars, rvars, vvars>>

\* the page's fetch of /api/audio/translate reaches translateAudio
AnalyzerRequestArrives ==
  /\ pc = "translating"
  /\ \A i \in 1..Len(handlers) : handlers[i].client # "analyzer"
  /\ Receive(requests[Len(requests)], "analyzer")
  /\ UNCHANGED <<fvars, rvars, vvars>>

ClientRequestArrives ==
  /\ \E req \in ClientRequests : Receive(req, "client")
  /\ UNCHANGED <<fvars, rvars, vvars>>

\* a client other than the page posts to /api/audio/translate
TranslateRequestArrives ==
  /\ \E req \in ClientRequests :
       /\ req.endpoint = "/api/audio/translate"
       /\ Receive(req, "client")
  /\ UNCHANGED <<fvars, rvars, vvars>>

SpeechToTextSettles ==
  /\ \E i \in 1..Len(handlers), text \in SpeechTexts : SpeechToTextReturns(i, text)
  /\ UNCHANGED <<fvars, rvars, vvars>>

ChatCompletionSettles ==
  /\ \E i \in 1..Len(handlers), tr \in Translations : ChatCompletionReturns(i, tr)
  /\ UNCHANGED <<fvars, rvars, vvars>>

ClockAdvances == Tick /\ UNCHANGED <<fvars, rvars, vvars>>

\* the page's fetch resolves with the handler's response
TranslateFetchResolves ==
  /\ pc = "translating"
  /\ \E i \in 1..Len(handlers) :
       /\ handlers[i].client = "analyzer"
       /\ handlers[i].pc = "responded"
       /\ TranslateReturns(handlers[i].response)

\* the page's fetch rejects: the server cannot be reached
TranslateFetchRejects ==
  /\ pc = "translating"
  /\ \A i \in 1..Len(handlers) : handlers[i].client # "analyzer"
  /\ TranslateReturns(NetworkError)

InitBackend ==
  /\ FrontendInit
  /\ BackendIdle
  /\ classifier = NoData

\* the three endpoints under concurrent requests
NextBackend ==
  \/ ClientRequestArrives
  \/ SpeechToTextSettles
  \/ ChatCompletionSettles
  \/ ClockAdvances

SpecBackend == InitBackend /\ [][NextBackend]_vars

\* executeCommand with Translate records, and translateAudio with its callers
NextTranslate ==
  \/ \E record \in TranslateIntents : CallExecuteCommand(record)
  \/ AnalyzerRequestArrives
  \/ TranslateRequestArrives
  \/ SpeechToTextSettles
  \/ ChatCompletionSettles
  \/ TranslateFetchResolves
  \/ TranslateFetchRejects

SpecTranslate == InitBackend /\ [][NextTranslate]_vars

(***************************************************************************)
(* executeCommand called with any record, and the endpoints it reaches     *)
(***************************************************************************)
\* the records executeCommand may be given
DispatchIntents ==
  { JSONParse(RecordTokens(ct, c, tl)).val :
      ct \in CommandTypeTexts, c \in ContentTexts, tl \in {Absent, "Spanish"} }

\* the page's fetch of /api/audio/models reaches getAvailableModels
ModelsRequestArrives ==
  /\ pc = "listing"
  /\ \A i \in 1..Len(handlers) : handlers[i].client # "analyzer"
  /\ Receive(requests[Len(requests)], "analyzer")
  /\ UNCHANGED <<fvars, rvars, vvars>>

\* a client other than the page asks for the models
ModelsClientArrives ==
  /\ Receive(ModelsRequest, "client")
  /\ UNCHANGED <<fvars, rvars, vvars>>

\* the page's fetch of the models resolves with the handler's response
ModelsFetchResolves ==
  /\ pc = "listing"
  /\ \E i \in 1..Len(handlers) :
       /\ handlers[i].client = "analyzer"
       /\ handlers[i].pc = "responded"
       /\ ListModelsReturns(handlers[i].response)

\* the page's fetch of the models rejects
ModelsFetchRejects ==
  /\ pc = "listing"
  /\ \A i \in 1..Len(handlers) : handlers[i].client # "analyzer"
  /\ ListModelsReturns(NetworkError)

NextDispatch ==
  \/ \E record \in DispatchIntents : CallExecuteCommand(record)
  \/ AnalyzerRequestArrives
  \/ ModelsRequestArrives
  \/ ModelsClientArrives
  \/ ChatCompletionSettles
  \/ TranslateFetchResolves
  \/ TranslateFetchRejects
  \/ ModelsFetchResolves
  \/ ModelsFetchRejects

SpecDispatch == InitBackend /\ [][NextDispatch]_vars

(***************************************************************************)
(* parseTranscriptionWithLLM with queryLLM behind it                       *)
(***************************************************************************)
\* the queries clients other than the page post to /api/llm/query
ClientQueries == Transcripts \cup {""}

\* the page's fetch of /api/llm/query reaches queryLLM
QueryRequestArrives ==
  /\ pc = "classifying"
  /\ \A i \in 1..Len(handlers) : handlers[i].client # "analyzer"
  /\ Receive(requests[Len(requests)], "analyzer")
  /\ UNCHANGED <<fvars, rvars, vvars>>

QueryClientArrives ==
  /\ \E q \in ClientQueries : Receive(LLMQueryRequest(q), "client")
  /\ UNCHANGED <<fvars, rvars, vvars>>

\* the gateway answers the page's call with the classifier's reply, and any
\* call with prose; or the post to it fails
GatewaySettles ==
  /\ \E i \in 1..Len(handlers) :
       \E result \in {Undefined, Text(<<PROSE>>)} \cup
                     (IF classifier.kind = "reply"
                        THEN {Text(classifier.response)} ELSE {}) :
         GatewayReturns(i, result)
  /\ UNCHANGED <<fvars, rvars, vvars>>

\* how the page's fetch settled, given queryLLM's response
QuerySettlement(r) ==
  IF ~Ok(r) THEN [kind |-> "http_error", response |-> NoText]
  ELSE IF r.body.success # "true" THEN [kind |-> "not_success", response |-> NoText]
  ELSE LLMReply(r.body.response.toks)

\* the page's fetch of /api/llm/query resolves with queryLLM's response
QueryFetchResolves ==
  /\ pc = "classifying"
  /\ \E i \in 1..Len(handlers) :
       /\ handlers[i].client = "analyzer"
       /\ handlers[i].pc = "responded"
       /\ QuerySettlement(handlers[i].response) = classifier
  /\ ClassifyReturns

\* the page's fetch of /api/llm/query rejects
QueryFetchRejects ==
  /\ pc = "classifying"
  /\ \A i \in 1..Len(handlers) : handlers[i].client # "analyzer"
  /\ classifier.kind = "network_error"
  /\ ClassifyReturns

\* a transcript is resolved; the gateway answers in some style, or fails
InitQuery ==
  /\ FrontendInit
  /\ BackendIdle
  /\ \/ classifier \in LLMFailures
     \/ \E style \in ReplyStyles :
          classifier = LLMReply(Written(style, RecordTokens("help", "good morning", Absent)))

NextQuery ==
  \/ CallResolve
  \/ QueryRequestArrives
  \/ QueryClientArrives
  \/ GatewaySettles
  \/ QueryFetchResolves
  \/ QueryFetchRejects

SpecQuery == InitQuery /\ [][NextQuery]_vars

(***************************************************************************)
(* The recorder and the New Recording button around a run                  *)
(***************************************************************************)
\* the recorder's 'stop' listener: it keeps the blob and calls
\* window.voiceCommandAnalyzer(audioBlob), which runs to its first await
RecordingStops(blob) ==
  /\ audioBlob' = blob
  /\ AnalyzeRecording(blob)
  /\ UNCHANGED <<recorderState, runState, vvars>>

\* startNewRecording: the click handler of #newRecordingButton, with
\* recorder.reset(); a run of the analyzer in flight is not told
StartNewRecording ==
  /\ resultElement' = Blank
  /\ audioChunks' = <<>>
  /\ audioBlob' = "none"
  /\ isRecording' = FALSE
  /\ transcribeButtonDisabled' = TRUE
  /\ statusElement' = <<"Ready to record">>
  /\ UNCHANGED <<variant, classifier, pc, transcription, llmData, parsedCommand,
                 dispatched, loadingHidden, requests, bvars, mediaRecorder,
                 recorders, pendingStarts, analyzerInstalled, analyses, runState, vvars>>

RecorderStops == \E blob \in Blobs \ {"none"} : RecordingStops(blob)

NextCancel ==
  \/ RecorderStops
  \/ StartNewRecording
  \/ TranscriptionArrives
  \/ ClassifyReturns
  \/ Dispatch
  \/ TranslationArrives
  \/ ModelsArrive

SpecCancel == Init /\ [][NextCancel]_vars

(***************************************************************************)
(* setupRecorder: startRecording, stopRecording, the 'stop' listener, and  *)
(* the runs of the analyzer the listener starts                            *)
(***************************************************************************)
\* what the recorder delivers in its dataavailable event
RecordedData == {"silence", "speech"}

\* new Blob(audioChunks): the chunks name the recorder they came from
BlobOf(chunks) == IF chunks = <<>> THEN "empty" ELSE "speech"

\* the locals of a run of analyzeRecording
RunContext ==
  [pc |-> pc, transcription |-> transcription, llmData |-> llmData,
   parsedCommand |-> parsedCommand, dispatched |-> dispatched,
   runBlob |-> runBlob, runId |-> runId]

\* the run is suspended at the await of a fetch
AwaitingFetch(p) == p \in {"transcribing", "classifying", "translating", "listing"}

\* the event loop is between tasks: no continuation of a run is pending
BetweenTasks == pc # "classified"

\* a click on #recordButton, or recorder.startRecording(): up to the await of
\* getUserMedia
StartRecording ==
  /\ BetweenTasks
  /\ Len(recorders) + pendingStarts < MaxRecordings
  /\ pendingStarts' = pendingStarts + 1
  /\ UNCHANGED <<fvars, bvars, audioBlob, mediaRecorder, recorders, isRecording,
                 audioChunks, analyzerInstalled, analyses, runState, vvars>>

\* getUserMedia resolves: the rest of startRecording
GetUserMediaResolves ==
  /\ BetweenTasks
  /\ pendingStarts > 0
  /\ pendingStarts' = pendingStarts - 1
  /\ audioChunks' = <<>>
  /\ recorders' = Append(recorders, "recording")
  /\ mediaRecorder' = Len(recorders) + 1
  /\ isRecording' = TRUE
  /\ transcribeButtonDisabled' = TRUE
  /\ statusElement' = <<"Recording... (Voice commands enabled)">>
  /\ UNCHANGED <<variant, classifier, pc, transcription, llmData, parsedCommand,
                 dispatched, resultElement, loadingHidden, requests, bvars,
                 audioBlob, analyzerInstalled, analyses, runState, vvars>>

\* getUserMedia rejects: the catch block of startRecording
GetUserMediaRejects ==
  /\ BetweenTasks
  /\ pendingStarts > 0
  /\ pendingStarts' = pendingStarts - 1
  /\ statusElement' = <<"Error: ", "Permission denied">>
  /\ UNCHANGED <<variant, classifier, pc, transcription, llmData, parsedCommand,
                 dispatched, resultElement, loadingHidden,
                 transcribeButtonDisabled, requests, bvars, audioBlob,
                 mediaRecorder, recorders, isRecording, audioChunks,
                 analyzerInstalled, analyses, runState, vvars>>

\* a click on #stopButton, or recorder.stopRecording(); mediaRecorder.stop()
\* queues the dataavailable and stop events of a recorder that is recording
StopRecording ==
  /\ BetweenTasks
  /\ recorders' =
       IF mediaRecorder # 0 /\ isRecording /\ recorders[mediaRecorder] = "recording"
         THEN [recorders EXCEPT ![mediaRecorder] = "stopping"]
         ELSE recorders
  /\ UNCHANGED <<fvars, bvars, audioBlob, mediaRecorder, isRecording, audioChunks,
                 pendingStarts, analyzerInstalled, analyses, runState, vvars>>

\* analyzeRecording(audioBlob) called while earlier runs may be suspended: it
\* runs to the await in transcribeAudio (a Blob is never falsy)
StartRun(blob) ==
  /\ background' = IF AwaitingFetch(pc) THEN Append(background, RunContext)
                   ELSE background
  /\ runBlob' = blob
  /\ runId' = Len(analyses')
  /\ transcription' = ""
  /\ llmData' = NoData
  /\ parsedCommand' = Undefined
  /\ dispatched' = "none"
  /\ statusElement' = <<"Analyzing recording for commands...">>
  /\ loadingHidden' = FALSE
  /\ requests' = Append(requests, TranscribeRequest(Base64(blob)))
  /\ pc' = "transcribing"
  /\ UNCHANGED <<resultElement, transcribeButtonDisabled>>

\* recorder k fires dataavailable and then stop: the two listeners
StopListener(k, data) ==
  LET chunks == IF data = "speech" THEN Append(audioChunks, k) ELSE audioChunks
  IN /\ BetweenTasks
     /\ recorders[k] = "stopping"
     /\ audioChunks' = chunks
     /\ audioBlob' = BlobOf(chunks)
     /\ isRecording' = FALSE
     /\ recorders' = [recorders EXCEPT ![k] = "inactive"]
     /\ IF analyzerInstalled
          THEN /\ analyses' = Append(analyses, [recorder |-> k, chunks |-> chunks])
               /\ StartRun(BlobOf(chunks))
          ELSE /\ statusElement' = <<"Ready to transcribe.">>
               /\ transcribeButtonDisabled' = FALSE
               /\ UNCHANGED <<pc, transcription, llmData, parsedCommand, dispatched,
                              resultElement, loadingHidden, requests, analyses,
                              runState>>
     /\ UNCHANGED <<variant, classifier, bvars, mediaRecorder, pendingStarts,
                    analyzerInstalled, vvars>>

StopEventFires ==
  \E k \in 1..Len(recorders), data \in RecordedData : StopListener(k, data)

\* the event loop turns to a run suspended behind the current one
SwitchRun ==
  /\ BetweenTasks
  /\ \E k \in 1..Len(background) :
       LET others == SubSeq(background, 1, k - 1)
                       \o SubSeq(background, k + 1, Len(background))
       IN /\ pc' = background[k].pc
          /\ transcription' = background[k].transcription
          /\ llmData' = background[k].llmData
          /\ parsedCommand' = background[k].parsedCommand
          /\ dispatched' = background[k].dispatched
          /\ runBlob' = background[k].runBlob
          /\ runId' = background[k].runId
          /\ background' = IF AwaitingFetch(pc) THEN Append(others, RunContext)
                           ELSE others
  /\ UNCHANGED <<variant, classifier, resultElement, statusElement, loadingHidden,
                 transcribeButtonDisabled, requests, bvars, audioBlob,
                 recorderState, vvars>>

\* the fetch of /transcribe of the current run settles
RunTranscriptionArrives ==
  /\ pc = "transcribing"
  /\ \E r \in TranscribeSettlements(TranscribeRequest(Base64(runBlob))) :
       TranscribeReturns(r)

\* the fetch of /translate of the current run settles
RunTranslationArrives ==
  /\ pc = "translating"
  /\ \E r \in TranslateSettlements(
                TranslateRequest(Get(parsedCommand, "content"),
                   FinalTargetLanguage(Get(parsedCommand, "targetLanguage")))) :
       TranslateReturns(r)

\* the page with its recorder; the classifier answers in a fenced block
InitRecorder ==
  /\ PageInit
  /\ analyzerInstalled \in BOOLEAN
  /\ audioBlob = "none"
  /\ recorderAvailable = TRUE
  /\ BackendIdle
  /\ \/ classifier = [kind |-> "network_error", response |-> NoText]
     \/ \E ct \in CommandTypeTexts \ {Absent} :
          classifier = LLMReply(Written("fenced", RecordTokens(ct, "good morning", Absent)))

NextRecorder ==
  \/ StartRecording
  \/ GetUserMediaResolves
  \/ GetUserMediaRejects
  \/ StopRecording
  \/ StopEventFires
  \/ StartNewRecording
  \/ SwitchRun
  \/ RunTranscriptionArrives
  \/ ClassifyReturns
  \/ Dispatch
  \/ RunTranslationArrives
  \/ ModelsArrive

SpecRecorder == InitRecorder /\ [][NextRecorder]_vars

(***************************************************************************)
(* setupVoiceCommands: command mode, the annyang handlers, and the toggle  *)
(* button of main.js                                                       *)
(***************************************************************************)
\* what a handler has done so far to the variables it shares with the page
VoicePage ==
  [listening |-> isListening, status |-> statusElement,
   notes |-> notifications, result |-> resultElement]

Commit(st) ==
  /\ isListening' = st.listening
  /\ statusElement' = st.status
  /\ notifications' = st.notes
  /\ resultElement' = st.result

\* what no voice-command handler writes
voiceFrame ==
  <<variant, classifier, pc, transcription, llmData, parsedCommand, dispatched,
    loadingHidden, transcribeButtonDisabled, bvars, rvars, recorderAvailable>>

\* stopCommandMode()
StopCommandMode(st) ==
  IF ~st.listening THEN st
  ELSE [st EXCEPT !.listening = FALSE,
                  !.status = <<"Voice command mode deactivated">>,
                  !.notes = Append(st.notes, "stop")]

\* startCommandMode() once initCommandRecognition has run; annyang.start
\* returns or throws
StartCommandMode(st, starts) ==
  IF st.listening THEN st
  ELSE IF starts
    THEN [st EXCEPT !.listening = TRUE,
                    !.status = <<"Listening for commands...">>,
                    !.notes = Append(st.notes, "start")]
  ELSE [st EXCEPT !.status = <<"Could not start voice commands">>]

\* the 'result' callback handleSpeechResult, which annyang calls before the
\* handler of the matching command
Heard(st) == [st EXCEPT !.result = [Blank EXCEPT !.view = "voice-command"]]

\* the 'stop' notifications sent after the first k notifications
StopsSince(notes, k) ==
  Cardinality({n \in (k + 1)..Len(notes) : notes[n] = "stop"})

\* the record of a call that ended
Entry(v, st) ==
  [handler |-> v.handler, generic |-> v.generic, parsed |-> v.parsed,
   branches |-> v.branches, stops |-> StopsSince(st.notes, v.since),
   listening |-> st.listening]

\* the handler v returns, and handleGenericCommand with it when it called v
Ends(v, st) ==
  /\ Commit(st)
  /\ voice' = NoVoice
  /\ handled' = handled
        \o (IF v.handler # "generic" THEN <<Entry(v, st)>> ELSE <<>>)
        \o (IF v.generic THEN <<Entry([v EXCEPT !.handler = "generic"], st)>>
            ELSE <<>>)

\* handleTranscribeCommand up to the await of the fetch in transcribeAudio
HandleTranscribeCommand(v, st) ==
  IF ~recorderAvailable
    THEN /\ Ends(v, [st EXCEPT !.status = <<"Recorder not available">>])
         /\ UNCHANGED requests
  ELSE IF audioBlob = "none"
    THEN /\ Ends(v, [st EXCEPT !.status =
                      <<"No audio recording available to transcribe">>])
         /\ UNCHANGED requests
  ELSE /\ Commit([st EXCEPT !.status = <<"Transcribing audio...">>])
       /\ requests' = Append(requests, TranscribeRequest(Base64(audioBlob)))
       /\ voice' = [v EXCEPT !.pc = "transcribing"]
       /\ UNCHANGED handled

\* handleListModelsCommand up to the await of its fetch
HandleListModelsCommand(v, st) ==
  /\ Commit([st EXCEPT !.status = <<"Fetching available models...">>])
  /\ requests' = Append(requests, ModelsRequest)
  /\ voice' = [v EXCEPT !.pc = "listing"]
  /\ UNCHANGED handled

\* handleHelpCommand
HandleHelpCommand(v, st) ==
  /\ Ends(v, StopCommandMode([st EXCEPT !.result = [Blank EXCEPT !.view = "help"],
                                        !.status = <<"Showing help information">>]))
  /\ UNCHANGED requests

\* a call of a handler by annyang
Called(handler) ==
  [NoVoice EXCEPT !.handler = handler, !.since = Len(notifications)]

\* annyang matches a phrase while it listens
Recognizes ==
  /\ isListening
  /\ voice.pc = "idle"
  /\ Len(handled) < MaxCommands

HearsTranscribe ==
  /\ Recognizes
  /\ HandleTranscribeCommand(Called("transcribe"), Heard(VoicePage))
  /\ UNCHANGED <<voiceFrame, commandMode, commandModeActive>>

HearsListModels ==
  /\ Recognizes
  /\ HandleListModelsCommand(Called("list_models"), Heard(VoicePage))
  /\ UNCHANGED <<voiceFrame, commandMode, commandModeActive>>

HearsHelp ==
  /\ Recognizes
  /\ HandleHelpCommand(Called("help"), Heard(VoicePage))
  /\ UNCHANGED <<voiceFrame, commandMode, commandModeActive>>

\* 'stop listening': stopCommandMode is the handler
HearsStopListening ==
  /\ Recognizes
  /\ Commit(StopCommandMode(Heard(VoicePage)))
  /\ UNCHANGED <<voiceFrame, commandMode, commandModeActive, requests, voice, handled>>

\* what annyang hands to the '*query' handler
Queries == {"show me what models are available"}

\* handleGenericCommand(query) up to the await of the fetch in parseCommandWithLLM
HearsQuery ==
  /\ Recognizes
  /\ \E query \in Queries :
       /\ Commit([Heard(VoicePage) EXCEPT !.status = <<"Processing command...">>])
       /\ requests' = Append(requests, LLMQueryRequest(query))
       /\ voice' = [Called("generic") EXCEPT !.pc = "parsing", !.generic = TRUE]
  /\ UNCHANGED <<voiceFrame, commandMode, commandModeActive, handled>>

\* the record parseCommandWithLLM resolves to; data is how its fetch settled
ParseCommandResult(data) ==
  IF data.kind = "network_error"
    THEN Obj([commandType |-> Str("unknown"), intent |-> Str("Error: Failed to fetch"),
              error |-> Str("Failed to fetch")])
  ELSE IF data.kind = "http_error"
    THEN Obj([commandType |-> Str("unknown"), intent |-> Str("Error: LLM API error: 500"),
              error |-> Str("LLM API error: 500")])
  ELSE IF data.kind = "not_success"
    THEN Obj([commandType |-> Str("unknown"),
              intent |-> Str("Error: Failed to process command with LLM"),
              error |-> Str("Failed to process command with LLM")])
  ELSE LET m == JsonMatch(data.response)
       IN IF m.found
            THEN LET p == JSONParse(MatchedText(m))
                 IN IF p.ok THEN p.val
                    ELSE Obj([commandType |-> Str("unknown"),
                              intent |-> Str("Could not parse command"),
                              rawLLMResponse |-> Text(data.response)])
            ELSE Obj([commandType |-> Str("unknown"),
                      intent |-> Str("Command not recognized"),
                      rawLLMResponse |-> Text(data.response)])

\* the case of handleGenericCommand's switch that parsedCommand.commandType selects
VoiceBranch(commandType) ==
  IF commandType \in {Str("transcribe"), Str("list_models"), Str("help")}
    THEN commandType.str
    ELSE "unknown"

\* handleGenericCommand once parseCommandWithLLM has returned
GenericCommandParsed ==
  /\ voice.pc = "parsing"
  /\ LET parsed == ParseCommandResult(classifier)
         st == [VoicePage EXCEPT !.notes = Append(notifications, "command")]
         v == [voice EXCEPT !.parsed = parsed]
     IN IF parsed.type \in {"null", "undefined"}
          THEN \* reading commandType throws; the catch block reports it
               /\ Ends(v, [st EXCEPT !.status =
                             <<"Error: ", "Cannot read properties of null">>])
               /\ UNCHANGED requests
          ELSE LET branch == VoiceBranch(Get(parsed, "commandType"))
                   w == [v EXCEPT !.branches = <<branch>>]
               IN CASE branch = "transcribe" ->
                         HandleTranscribeCommand([w EXCEPT !.handler = "transcribe"], st)
                    [] branch = "list_models" ->
                         HandleListModelsCommand([w EXCEPT !.handler = "list_models"], st)
                    [] branch = "help" ->
                         HandleHelpCommand([w EXCEPT !.handler = "help"], st)
                    [] OTHER ->
                         /\ Ends(w, [st EXCEPT
                                       !.status = <<"Command not recognized">>,
                                       !.result = [Blank EXCEPT !.view = "unknown-command"]])
                         /\ UNCHANGED requests
  /\ UNCHANGED <<voiceFrame, commandMode, commandModeActive>>

\* transcribeAudio of voiceCommands.js after its fetch settles, and the rest
\* of handleTranscribeCommand
VoiceTranscriptionReturns(r) ==
  /\ voice.pc = "transcribing"
  /\ LET st == IF ~Ok(r)
                 THEN [VoicePage EXCEPT !.status =
                         <<"Transcription error: ",
                           IF r.kind = "network_error" THEN "Failed to fetch"
                           ELSE ApiError(r.status)>>]
               ELSE IF r.body.success = "true" /\ Truthy(r.body.transcription)
                 THEN [VoicePage EXCEPT !.result = ShowText(r.body.transcription),
                                        !.status = <<"Transcription complete">>]
               ELSE [VoicePage EXCEPT !.status =
                       <<"Transcription error: ", "Transcription failed">>]
     IN Ends(voice, StopCommandMode(st))
  /\ UNCHANGED <<voiceFrame, commandMode, commandModeActive, requests>>

\* handleListModelsCommand after its fetch settles
VoiceModelsReturn(r) ==
  /\ voice.pc = "listing"
  /\ LET st == IF ~Ok(r)
                 THEN [VoicePage EXCEPT !.status =
                         <<"Error: ",
                           IF r.kind = "network_error" THEN "Failed to fetch"
                           ELSE ApiError(r.status)>>]
               ELSE [VoicePage EXCEPT
                       !.result = [Blank EXCEPT !.view = "models",
                                                !.models = r.body.models],
                       !.status = <<"Available models fetched successfully">>]
     IN Ends(voice, StopCommandMode(st))
  /\ UNCHANGED <<voiceFrame, commandMode, commandModeActive, requests>>

VoiceTranscriptionArrives ==
  /\ voice.pc = "transcribing"
  /\ \E r \in TranscribeSettlements(requests[Len(requests)]) :
       VoiceTranscriptionReturns(r)

VoiceModelsArrive == \E r \in ModelsSettlements : VoiceModelsReturn(r)

\* the click handler of #voiceCommandButton; starts tells whether
\* annyang.start returns
ToggleClicked(starts) ==
  /\ Len(notifications) < MaxNotifications
  /\ IF commandModeActive
       THEN /\ Commit(StopCommandMode(VoicePage))
            /\ commandModeActive' = FALSE
            /\ UNCHANGED commandMode
       ELSE /\ Commit(StartCommandMode(VoicePage, starts))
            /\ commandMode' = (commandMode \/ ~isListening)
            /\ commandModeActive' = TRUE
  /\ UNCHANGED <<voiceFrame, requests, voice, handled>>

VoiceCommandButtonClicked == \E starts \in BOOLEAN : ToggleClicked(starts)

\* the 'error' callback of annyang
RecognitionError ==
  /\ commandMode
  /\ isListening
  /\ Commit([StopCommandMode(VoicePage) EXCEPT
               !.status = <<"Voice command error: ", "no-speech">>])
  /\ UNCHANGED <<voiceFrame, commandMode, commandModeActive, requests, voice, handled>>

\* the page with voice commands set up; a recording may have been made, the
\* recorder may be missing, and the classifier answers in some style
InitVoice ==
  /\ PageInit
  /\ BackendIdle
  /\ analyzerInstalled = FALSE
  /\ audioBlob \in {"none", "speech"}
  /\ recorderAvailable \in BOOLEAN
  /\ \/ classifier \in LLMFailures
     \/ \E ct \in CommandTypeTexts, style \in ReplyStyles :
          classifier = LLMReply(Written(style, RecordTokens(ct, Absent, Absent)))

NextVoice ==
  \/ VoiceCommandButtonClicked
  \/ RecognitionError
  \/ HearsTranscribe
  \/ HearsListModels
  \/ HearsHelp
  \/ HearsStopListening
  \/ HearsQuery
  \/ GenericCommandParsed
  \/ VoiceTranscriptionArrives
  \/ VoiceModelsArrive

SpecVoice == InitVoice /\ [][NextVoice]_vars

(***************************************************************************)
(* Claims about the intent resolver                                        *)
(***************************************************************************)
\* the reply text the resolver received
Reply == llmData.response

Resolved == pc = "classified" /\ llmData.kind = "reply"

\* the reply holds an opening fence with a closing fence after it
HasFence(reply) ==
  \E i, j \in 1..Len(reply) : i < j /\ reply[i] = FO /\ reply[j] = FC

\* the reply holds a "{" with a "}" after it
HasBraces(reply) ==
  \E i, j \in 1..Len(reply) : i < j /\ reply[i] = LB /\ reply[j] = RB

\* the text extraction hands to JSON.parse does not parse
LocatedTextFails(reply) ==
  /\ JsonMatch(reply).found
  /\ ~JSONParse(MatchedText(JsonMatch(reply))).ok

IsFallbackRecord(record, t, reply) ==
  /\ Get(record, "commandType") = Str("unknown")
  /\ Get(record, "content") = Str(t)
  /\ Get(record, "rawLLMResponse") = Text(reply)

\* C1: when the reply holds neither a fenced json block nor a {...} substring,
\* or the located text fails JSON.parse, the returned record has commandType
\* 'unknown', the transcript verbatim as content, and the unparsed reply as
\* rawLLMResponse; the call returns (it never rejects).
C1_FailOpen ==
  (Resolved /\ (\/ ~HasFence(Reply) /\ ~HasBraces(Reply)
                \/ LocatedTextFails(Reply)))
    => IsFallbackRecord(parsedCommand, transcription, Reply)

\* C1 witness: a reply whose located {...} text does not parse was resolved
C1_Witness ==
  /\ Resolved
  /\ ~HasFence(Reply) /\ HasBraces(Reply) /\ LocatedTextFails(Reply)
  /\ IsFallbackRecord(parsedCommand, transcription, Reply)

\* the fenced block of a reply: from its first opening fence to the next
\* closing fence; 0 when there is none
BlockStart(reply) == FirstIndex(reply, FO, 1)
BlockEnd(reply) ==
  IF BlockStart(reply) = 0 THEN 0 ELSE FirstIndex(reply, FC, BlockStart(reply) + 1)
BlockBody(reply) == SubSeq(reply, BlockStart(reply) + 1, BlockEnd(reply) - 1)

WellFormedBlock(reply) == BlockEnd(reply) # 0 /\ JSONParse(BlockBody(reply)).ok

RECURSIVE ClosingBrace(_, _, _)
\* the index of the "}" that closes the braces open at depth, scanning from k
ClosingBrace(s, k, depth) ==
  IF k > Len(s) THEN 0
  ELSE IF s[k] = LB THEN ClosingBrace(s, k + 1, depth + 1)
  ELSE IF s[k] = RB
    THEN IF depth = 1 THEN k ELSE ClosingBrace(s, k + 1, depth - 1)
  ELSE ClosingBrace(s, k + 1, depth)

\* where the first balanced {...} substring starts, or 0
BalancedStart(reply) ==
  LET starts == {i \in 1..Len(reply) :
                   reply[i] = LB /\ ClosingBrace(reply, i + 1, 1) # 0}
  IN IF starts = {} THEN 0 ELSE CHOOSE i \in starts : \A j \in starts : i <= j

Balanced(reply) ==
  SubSeq(reply, BalancedStart(reply),
         ClosingBrace(reply, BalancedStart(reply) + 1, 1))

\* C7: for a reply without a fenced block that holds a balanced {...}
\* substring, nested objects included, the record returned is the parsed JSON
\* of the first balanced substring.
C7_BalancedBraces ==
  (Resolved /\ ~HasFence(Reply) /\ BalancedStart(Reply) # 0
     /\ JSONParse(Balanced(Reply)).ok)
    => parsedCommand = JSONParse(Balanced(Reply)).val

\* C4: every record resolve returns carries a content value, and a reply that
\* parses as JSON without commandType and content yields kind unknown with the
\* full transcript as content.
C4_ContentFallback ==
  pc = "classified" =>
    /\ Get(parsedCommand, "content") # Undefined
    /\ (/\ llmData.kind = "reply"
        /\ JsonMatch(Reply).found
        /\ JSONParse(MatchedText(JsonMatch(Reply))).ok
        /\ Get(JSONParse(MatchedText(JsonMatch(Reply))).val, "commandType") = Undefined
        /\ Get(JSONParse(MatchedText(JsonMatch(Reply))).val, "content") = Undefined)
       => /\ Get(parsedCommand, "commandType") = Str("unknown")
          /\ Get(parsedCommand, "content") = Str(transcription)

(***************************************************************************)
(* Claims about a run of analyzeRecording                                  *)
(***************************************************************************)
CommandType == Get(parsedCommand, "commandType")

\* the fetch of /api/llm/query failed, or its reply was not a success
ClassificationFailed ==
  llmData.kind \in {"network_error", "http_error", "not_success"}

\* a stage after transcription failed in this run
LaterStageFailed ==
  \/ ClassificationFailed
  \/ resultElement.view = "translation_error"
  \/ /\ dispatched \in {"translate", "list_models"}
     /\ Len(statusElement) > 0 /\ statusElement[1] = "Error: "

\* the result element shows the transcript or the content taken from it
ShowsTranscribedText ==
  \/ /\ resultElement.view = "text"
     /\ resultElement.text \in {Str(transcription), Get(parsedCommand, "content")}
     /\ Truthy(resultElement.text)
  \/ /\ resultElement.view \in {"translation", "translation_error"}
     /\ resultElement.original \in {Str(transcription), Get(parsedCommand, "content")}
     /\ Truthy(resultElement.original)

\* C2: once transcription has returned a non-empty transcript, a run in which
\* a later stage (classification, translation, model listing) fails ends with
\* the result element showing the transcribed text.
C2_TranscriptStaysShown ==
  (pc = "done" /\ transcription # "" /\ LaterStageFailed) => ShowsTranscribedText

KnownCommandTypes ==
  {Str("transcribe"), Str("translate"), Str("list_models"), Str("help")}

\* C3 as stated: the record resolve returns has a commandType within
\* {transcribe, translate, list_models, help, unknown}.
C3_ClosedKinds ==
  pc = "classified" => CommandType \in KnownCommandTypes \cup {Str("unknown")}

\* C3 amended: resolve returns the parsed commandType unchanged; executeCommand
\* runs exactly one of its five cases, and the unknown case for every
\* commandType outside {transcribe, translate, list_models, help}: the run
\* ends 'Transcription complete' with no request beyond transcription and
\* classification.
C3_CollapseAtDispatch ==
  /\ (pc = "classified" /\ llmData.kind = "reply" /\ JsonMatch(Reply).found
        /\ JSONParse(MatchedText(JsonMatch(Reply))).ok)
       => parsedCommand = JSONParse(MatchedText(JsonMatch(Reply))).val
  /\ dispatched # "none" =>
       /\ dispatched \in {"transcribe", "translate", "list_models", "help", "unknown"}
       /\ CommandType \notin KnownCommandTypes =>
            /\ dispatched = "unknown"
            /\ pc = "done"
            /\ statusElement = <<"Transcription complete">>
            /\ Len(requests) = 2

\* C3 witness: a record whose commandType is outside the enumeration was
\* returned by resolve and ran the unknown case
C3_Witness ==
  /\ CommandType = Str("delete")
  /\ dispatched = "unknown"
  /\ statusElement = <<"Transcription complete">>

C6_TempFileReleased ==
  \A i \in 1..Len(handlers) :
    (handlers[i].pc = "responded" /\ handlers[i].tempFilePath # NoPath)
      => \/ handlers[i].tempFilePath \notin DOMAIN tmpFiles
         \/ tmpFiles[handlers[i].tempFilePath].writer # i

\* executeCommand ran the translate case on a record with content
TranslateRan == dispatched = "translate" /\ Truthy(Get(parsedCommand, "content"))

IntentTargetLanguage == Get(parsedCommand, "targetLanguage")

\* the page requests, announces and reports the translation with target lang
PageUses(lang) ==
  /\ requests[Len(requests)].targetLanguage = Str(lang)
  /\ pc = "translating" => statusElement = <<"Translating to ", lang, "...">>
  /\ resultElement.view = "translation" =>
       /\ resultElement.target = Str(lang)
       /\ statusElement = <<"Translation to ", lang, " complete">>

\* translateAudio prompts for, and reports, target lang in call i
EndpointUses(i, lang) ==
  /\ handlers[i].finalTargetLanguage = Str(lang)
  /\ (handlers[i].pc = "responded" /\ handlers[i].response.status = 200) =>
       handlers[i].response.body.targetLanguage = Str(lang)

\* C9: a Translate intent whose targetLanguage is absent or empty is requested
\* and reported with target language "English", by executeTranslateCommand
\* and by the translateAudio endpoint.
C9_DefaultTargetLanguage ==
  /\ (TranslateRan /\ ~Truthy(IntentTargetLanguage)) => PageUses("English")
  /\ \A i \in 1..Len(handlers) :
       (/\ handlers[i].endpoint = "/api/audio/translate"
        /\ ~Truthy(handlers[i].body.targetLanguage)) => EndpointUses(i, "English")

\* C9 witness: the page shows a translation of an intent without a target
\* language, and the endpoint has answered a client that sent none
C9_Witness ==
  /\ TranslateRan /\ IntentTargetLanguage = Undefined
  /\ resultElement.view = "translation"
  /\ resultElement.target = Str("English")
  /\ \E i \in 1..Len(handlers) :
       /\ handlers[i].client = "client"
       /\ handlers[i].endpoint = "/api/audio/translate"
       /\ ~Truthy(handlers[i].body.targetLanguage)
       /\ handlers[i].pc = "responded"
       /\ handlers[i].response.status = 200
       /\ handlers[i].response.body.targetLanguage = Str("English")

\* C10: a Translate intent whose targetLanguage is the generic placeholder
\* "another language" is requested and reported with target language
\* "English".
C10_GenericTargetLanguage ==
  /\ (TranslateRan /\ IntentTargetLanguage = Str("another language"))
       => PageUses("English")
  /\ \A i \in 1..Len(handlers) :
       (/\ handlers[i].endpoint = "/api/audio/translate"
        /\ handlers[i].body.targetLanguage = Str("another language"))
         => EndpointUses(i, "English")

(***************************************************************************)
(* Claims about dispatch                                                   *)
(***************************************************************************)
IntentContent == Get(parsedCommand, "content")

\* C11: a run whose intent is dispatched on the unknown case ends with the
\* result element showing the transcribed text and the status 'Transcription
\* complete', never an error message.
C11_UnknownShowsTranscript ==
  (pc = "done" /\ dispatched = "unknown") =>
    /\ resultElement.view = "text"
    /\ ShowsTranscribedText
    /\ statusElement = <<"Transcription complete">>

\* C12 as stated: after every Transcribe dispatch the result element shows
\* exactly the record's content and the status is 'Transcription complete'.
C12_TranscribeShowsContent ==
  (pc = "done" /\ dispatched = "transcribe") =>
    /\ resultElement = ShowText(IntentContent)
    /\ statusElement = <<"Transcription complete">>

\* C12 amended: dispatching a Transcribe intent sets the status to
\* 'Transcription complete'; it writes exactly the record's content to the
\* result element when the content is non-empty, and leaves the result element
\* as it was when the content is empty or missing.
C12_TranscribeShowsNonEmptyContent ==
  [][(pc = "classified" /\ dispatched' = "transcribe") =>
       /\ pc' = "done"
       /\ statusElement' = <<"Transcription complete">>
       /\ Truthy(IntentContent) => resultElement' = ShowText(IntentContent)
       /\ ~Truthy(IntentContent) => resultElement' = resultElement]_vars

\* C12 witness: a Transcribe intent with content was dispatched and is shown
C12_Witness ==
  /\ pc = "done" /\ dispatched = "transcribe"
  /\ IntentContent = Str("good morning")
  /\ resultElement = ShowText(Str("good morning"))
  /\ statusElement = <<"Transcription complete">>

\* the handler calls that serve the page's translate request
AnalyzerCalls == {i \in 1..Len(handlers) : handlers[i].client = "analyzer"}

\* the response is an error status, success:false or an empty translation
FailedResponse(r) ==
  \/ r.status # 200
  \/ r.body.success # "true"
  \/ ~Truthy(r.body.translation)

\* the page's translate request has settled as a failure: the fetch was
\* rejected before the request reached the server, or the answer is a failure
TranslationRequestFailed ==
  /\ TranslateRan /\ pc = "done"
  /\ \/ AnalyzerCalls = {}
     \/ \E i \in AnalyzerCalls : FailedResponse(handlers[i].response)

\* C13: when the translation request of a Translate dispatch fails (network
\* error, non-success status, success:false or empty translation), the result
\* element afterwards shows the original content with a visible error, and
\* the status shows the error.
C13_TranslateFailureKeepsOriginal ==
  TranslationRequestFailed =>
    /\ resultElement.view = "translation_error"
    /\ resultElement.original = IntentContent
    /\ resultElement.error # ""
    /\ statusElement = <<"Error: ", resultElement.error>>

\* C13 witness: the endpoint answered 200 with an empty translation and the
\* page shows the original with the error
C13_Witness ==
  /\ TranslationRequestFailed
  /\ \E i \in AnalyzerCalls :
       /\ handlers[i].response.status = 200
       /\ handlers[i].response.body.translation = Str("")
  /\ resultElement.view = "translation_error"
  /\ resultElement.original = Str("good morning")

\* the translation requests the page has issued
TranslationRequests ==
  {i \in 1..Len(requests) : requests[i].endpoint = "/api/audio/translate"}

\* C14: dispatching a Translate intent with non-empty content and a stated
\* targetLanguage issues exactly one translation request, whose content and
\* targetLanguage are exactly the record's two values.
C14_TranslatePayload ==
  (TranslateRan /\ Truthy(IntentTargetLanguage)) =>
    /\ Cardinality(TranslationRequests) = 1
    /\ \A i \in TranslationRequests :
         /\ requests[i].method = "POST"
         /\ requests[i].content = IntentContent
         /\ requests[i].targetLanguage = IntentTargetLanguage

\* C14 witness: the intent {translate, "good morning", "Spanish"} was
\* dispatched and its request reached the endpoint with those two values
C14_Witness ==
  /\ TranslateRan
  /\ IntentContent = Str("good morning")
  /\ IntentTargetLanguage = Str("Spanish")
  /\ \E i \in AnalyzerCalls :
       /\ handlers[i].body.content = Str("good morning")
       /\ handlers[i].body.targetLanguage = Str("Spanish")

(***************************************************************************)
(* Claims about the order of the stages                                    *)
(***************************************************************************)
\* C15: within one run of analyzeRecording the classification request is
\* issued only after the transcription response has been received (it carries
\* the transcript), and dispatch, with its translation or model-list request,
\* starts only after classification has returned.
C15_StageOrder ==
  /\ \A i \in 1..Len(requests) :
       /\ requests[i].endpoint = "/api/audio/transcribe" => i = 1
       /\ requests[i].endpoint = "/api/llm/query" =>
            /\ i = 2
            /\ requests[1].endpoint = "/api/audio/transcribe"
            /\ transcription # ""
            /\ requests[i].query = transcription
       /\ requests[i].endpoint \in {"/api/audio/translate", "/api/audio/models"} =>
            /\ i = 3
            /\ requests[2].endpoint = "/api/llm/query"
            /\ llmData # NoData
            /\ parsedCommand # Undefined
  /\ dispatched # "none" => (llmData # NoData /\ transcription # "")
  /\ pc = "transcribing" => (Len(requests) = 1 /\ transcription = "")
  /\ pc = "classifying" => (Len(requests) = 2 /\ llmData = NoData)

\* C15 witness: a run went through the three stages up to a translation
C15_Witness ==
  /\ pc = "done"
  /\ Len(requests) = 3
  /\ requests[1].endpoint = "/api/audio/transcribe"
  /\ requests[2].endpoint = "/api/llm/query"
  /\ requests[3].endpoint = "/api/audio/translate"
  /\ resultElement.view = "translation"

\* C16: once the user has pressed New Recording after a run was started, the
\* run commits nothing more: the result element keeps its placeholder and the
\* status keeps 'Ready to record', whatever the outstanding request answers.
C16_AbortedRunCommitsNothing ==
  (audioBlob = "none" /\ requests # <<>>) =>
    /\ resultElement = Blank
    /\ statusElement = <<"Ready to record">>

(***************************************************************************)
(* Claims about the endpoints' input rules and error replies               *)
(***************************************************************************)
\* C17: every error response of an endpoint, HTTP 400 or HTTP 500, carries a
\* JSON body with success:false and an error string.
C17_ErrorEnvelope ==
  \A i \in 1..Len(handlers) :
    (handlers[i].pc = "responded" /\ handlers[i].response.status \in {400, 500})
      => /\ handlers[i].response.body.success = "false"
         /\ Truthy(handlers[i].response.body.error)

\* call i is a call of translateAudio
IsTranslateCall(i) == handlers[i].endpoint = "/api/audio/translate"

\* call i was answered HTTP 400 with success:false
Rejected(i) ==
  /\ handlers[i].pc = "responded"
  /\ handlers[i].response.status = 400
  /\ handlers[i].response.body.success = "false"

\* C18 as stated: a translateAudio request supplying neither audioData nor
\* content, or both, is answered HTTP 400 with success:false.
C18_ExactlyOneInput ==
  \A i \in 1..Len(handlers) :
    (/\ IsTranslateCall(i)
     /\ Truthy(handlers[i].body.audioData) = Truthy(handlers[i].body.content))
      => Rejected(i)

\* C18 amended: translateAudio accepts a request when at least one of
\* audioData and content is non-empty; a request with neither is answered
\* HTTP 400 with success:false; when content is supplied, with or without
\* audioData, the content is what is translated and the audio is ignored (no
\* temporary file); with audioData alone the audio is transcribed first.
C18_AtLeastOneInput ==
  \A i \in 1..Len(handlers) :
    IsTranslateCall(i) =>
      LET h == handlers[i]
      IN /\ (~Truthy(h.body.audioData) /\ ~Truthy(h.body.content))
              => (Rejected(i) /\ h.tempFilePath = NoPath)
         /\ Truthy(h.body.content)
              => /\ ~Rejected(i)
                 /\ h.tempFilePath = NoPath
                 /\ h.transcription = h.body.content
         /\ (Truthy(h.body.audioData) /\ ~Truthy(h.body.content))
              => (~Rejected(i) /\ h.tempFilePath # NoPath)

\* C18 witness: a request supplying both was translated from its content
C18_Witness ==
  \E i \in 1..Len(handlers) :
    /\ IsTranslateCall(i)
    /\ Truthy(handlers[i].body.audioData) /\ Truthy(handlers[i].body.content)
    /\ handlers[i].pc = "responded"
    /\ handlers[i].response.status = 200
    /\ handlers[i].response.body.originalTranscription = handlers[i].body.content
    /\ handlers[i].tempFilePath = NoPath

\* call i is a transcription with a missing or empty audio payload
LacksAudio(i) ==
  /\ handlers[i].endpoint \in {"/api/audio/transcribe", "/analyze-command"}
  /\ ~Truthy(handlers[i].body.audioData)

\* C19: a transcription request with a missing or empty audio payload is
\* answered HTTP 400, without a speech-to-text call and without a temporary
\* file.
C19_InvalidAudio ==
  \A i \in 1..Len(handlers) :
    LacksAudio(i) =>
      /\ handlers[i].pc = "responded"
      /\ handlers[i].response.status = 400
      /\ Truthy(handlers[i].response.body.error)
      /\ handlers[i].tempFilePath = NoPath
      /\ \A f \in DOMAIN tmpFiles : tmpFiles[f].writer # i

\* C19 witness: an empty audioData was answered 400 with no file on disk
C19_Witness ==
  \E i \in 1..Len(handlers) :
    /\ LacksAudio(i)
    /\ handlers[i].body.audioData = Str("")
    /\ handlers[i].response.status = 400
    /\ DOMAIN tmpFiles = {}

(***************************************************************************)
(* Claims about the requests dispatch issues                               *)
(***************************************************************************)
IsModelsCall(i) == handlers[i].endpoint = "/api/audio/models"

\* C20: executeCommand issues a request only on the list_models case, one GET
\* of the models endpoint, and on the translate case, one POST to the
\* translation endpoint; the transcribe, help and unknown cases issue none;
\* and the models endpoint answers every call at once with its fixed catalog,
\* without waiting for an upstream gateway.
C20_DispatchFootprint ==
  /\ dispatched \in {"transcribe", "help", "unknown"} => requests = <<>>
  /\ dispatched = "list_models" =>
       /\ Len(requests) = 1
       /\ requests[1].endpoint = "/api/audio/models"
       /\ requests[1].method = "GET"
  /\ dispatched = "translate" =>
       /\ Len(requests) = (IF Truthy(IntentContent) THEN 1 ELSE 0)
       /\ \A i \in 1..Len(requests) :
            /\ requests[i].endpoint = "/api/audio/translate"
            /\ requests[i].method = "POST"
  /\ \A i \in 1..Len(handlers) :
       IsModelsCall(i) =>
         /\ handlers[i].pc = "responded"
         /\ handlers[i].response = Http(200, ModelsBody)
  /\ resultElement.view = "models" => resultElement.models = ModelsBody.models

\* C20 witness: the page lists the models it fetched, and another client got
\* the same catalog
C20_Witness ==
  /\ dispatched = "list_models" /\ pc = "done"
  /\ resultElement.view = "models"
  /\ \E i, j \in 1..Len(handlers) :
       /\ IsModelsCall(i) /\ handlers[i].client = "analyzer"
       /\ IsModelsCall(j) /\ handlers[j].client = "client"
       /\ handlers[i].response = handlers[j].response
(***************************************************************************)
(* Claims about queryLLM                                                   *)
(***************************************************************************)
IsQueryCall(i) == handlers[i].endpoint = "/api/llm/query"

\* the call posted to the gateway
Posted(i) == IsQueryCall(i) /\ handlers[i].messages # <<>>

\* C21: the messages queryLLM sends to the chat-completion gateway are the
\* fixed system prompt and the query of that call, whatever was asked and
\* answered before; two calls with the same query send the same messages.
C21_StatelessResolution ==
  /\ \A i \in 1..Len(handlers) :
       IsQueryCall(i) /\ handlers[i].body.query # "" =>
         handlers[i].messages =
           <<[role |-> "system", content |-> SystemPrompt],
             [role |-> "user", content |-> handlers[i].body.query]>>
  /\ \A i, j \in 1..Len(handlers) :
       Posted(i) /\ Posted(j) /\ handlers[i].body.query = handlers[j].body.query
         => handlers[i].messages = handlers[j].messages
  /\ \A k \in 1..Len(requests) :
       requests[k].endpoint = "/api/llm/query" =>
         requests[k] = LLMQueryRequest(transcription)

\* C21 witness: a second call with the query of an answered first one, one of
\* them the page's
C21_Witness ==
  \E i, j \in 1..Len(handlers) :
    /\ i < j /\ Posted(i) /\ Posted(j)
    /\ handlers[i].pc = "responded" /\ handlers[i].response.status = 200
    /\ handlers[j].client = "analyzer"
    /\ handlers[i].body.query = handlers[j].body.query
(***************************************************************************)
(* Claims about the recorder                                               *)
(***************************************************************************)
\* the recorders whose 'stop' listener has run
Stopped == {k \in 1..Len(recorders) : recorders[k] = "inactive"}

\* C22: every recording that has stopped was handed to the analyzer exactly
\* once, with a blob of its own chunks only, when an analyzer is installed,
\* and no other call of the analyzer was made (so stopRecording outside a
\* recording starts none); without an analyzer no run starts, and the stop
\* leaves the Transcribe button enabled with status 'Ready to transcribe.'.
C22_OneAnalysisPerRecording ==
  /\ analyzerInstalled =>
       /\ \A k \in Stopped :
            Cardinality({n \in 1..Len(analyses) : analyses[n].recorder = k}) = 1
       /\ \A n \in 1..Len(analyses) :
            /\ analyses[n].recorder \in Stopped
            /\ \A c \in 1..Len(analyses[n].chunks) :
                 analyses[n].chunks[c] = analyses[n].recorder
       /\ Len(analyses) =
            Cardinality({n \in 1..Len(requests) :
                           requests[n].endpoint = "/api/audio/transcribe"})
  /\ ~analyzerInstalled => analyses = <<>> /\ requests = <<>> /\ pc = "idle"

(***************************************************************************)
(* Claims about the failure of a stage                                     *)
(***************************************************************************)
\* C23: when transcribeAudio fails (the fetch rejects, the status is not ok,
\* or the transcription is empty) the run ends there: it sends no
\* classification request, dispatches nothing, leaves the result element as
\* it was, sets the status to an 'Error: ...' message and hides the loading
\* indicator; a run only goes on to classify with a non-empty transcription.
C23_TranscriptionFailureStops ==
  [][pc = "transcribing" =>
       IF pc' = "classifying"
         THEN transcription' # ""
         ELSE /\ pc' = "done"
              /\ requests' = requests
              /\ dispatched' = "none" /\ parsedCommand' = Undefined
              /\ llmData' = NoData
              /\ resultElement' = resultElement
              /\ Head(statusElement') = "Error: "
              /\ statusElement'[2] = "Failed to transcribe audio: "
              /\ loadingHidden']_vars

\* C23 witness: the run ended on an unreachable transcription endpoint
C23_Witness ==
  /\ pc = "done" /\ transcription = ""
  /\ Len(requests) = 1 /\ dispatched = "none"
  /\ statusElement = <<"Error: ", "Failed to transcribe audio: ", "Failed to fetch">>
  /\ loadingHidden
\* C24: whenever a run of the analyzer started by the stop of a recording
\* ends, with a result or with an error in any stage, the Transcribe button
\* is enabled.
C24_ManualFallbackAvailable ==
  [][(Len(analyses) > 0 /\ pc # "done" /\ pc' = "done")
       => ~transcribeButtonDisabled']_vars
(***************************************************************************)
(* Claims about the voice commands                                         *)
(***************************************************************************)
\* a call of handleGenericCommand ends in this step; its record
GenericEnds == Len(handled') > Len(handled) /\ handled'[Len(handled')].handler = "generic"
EndedCall == handled'[Len(handled')]

\* C25: for every query and every outcome of the classifier,
\* handleGenericCommand runs exactly one branch, the one its parsed
\* commandType selects: the transcribe, list-models or help handler, or the
\* unknown branch with status 'Command not recognized'; a failure of the
\* classifier or of the network ends in the unknown branch.
C25_GenericDispatch ==
  [][GenericEnds =>
       LET commandType == Get(EndedCall.parsed, "commandType")
       IN /\ Len(EndedCall.branches) = 1
          /\ commandType = Str("transcribe") => EndedCall.branches = <<"transcribe">>
          /\ commandType = Str("list_models") => EndedCall.branches = <<"list_models">>
          /\ commandType = Str("help") => EndedCall.branches = <<"help">>
          /\ commandType \notin {Str("transcribe"), Str("list_models"), Str("help")}
               => /\ EndedCall.branches = <<"unknown">>
                  /\ statusElement' = <<"Command not recognized">>
          /\ classifier.kind # "reply" => EndedCall.branches = <<"unknown">>]_vars
(***************************************************************************)
(* Claims about runs of the analyzer that overlap                          *)
(***************************************************************************)
\* a later call of the analyzer is still waiting for a response
LaterRunInFlight == \E k \in 1..Len(background) : background[k].runId > runId

\* the current run continues in this step
RunContinues == runId' = runId /\ pc' # pc

\* C26: when a second recording is stopped while the first run's requests are
\* outstanding, what the page finally shows is the later run's result and
\* status: once every later run has ended, a response for an earlier run
\* changes neither the result nor the status, in whatever order the
\* responses arrive.
C26_LatestRecordingWins ==
  [][(RunContinues /\ runId < Len(analyses) /\ ~LaterRunInFlight)
       => /\ resultElement' = resultElement
          /\ statusElement' = statusElement]_vars
(***************************************************************************)
(* Claims about concurrent requests                                        *)
(***************************************************************************)
\* handler i has written its temporary file and still waits for the
\* speech-to-text service to read it
ReadingTempFile(i) == handlers[i].pc = "speech_to_text"

\* C27: two transcription requests handled at the same time never use the
\* same temporary file path, so no handler overwrites or deletes the file
\* another handler is still reading.
C27_TempFileIsolation ==
  /\ \A i, j \in 1..Len(handlers) :
       (i # j /\ ReadingTempFile(i) /\ ReadingTempFile(j))
         => handlers[i].tempFilePath # handlers[j].tempFilePath
  /\ \A i \in 1..Len(handlers) :
       ReadingTempFile(i) =>
         /\ handlers[i].tempFilePath \in DOMAIN tmpFiles
         /\ tmpFiles[handlers[i].tempFilePath].writer = i
(***************************************************************************)
(* Claims about the recorder's flag                                        *)
(***************************************************************************)
\* recorder k was started and its 'stop' listener has not run yet
Active(k) == recorders[k] \in {"recording", "stopping"}

\* C28: after any sequence of startRecording, stopRecording and reset,
\* isRecording() is true exactly while a MediaRecorder started by
\* startRecording is still recording; a recorder that is recording is the one
\* stopRecording would stop; and at most one recorder is active at a time.
C28_RecorderFlag ==
  /\ isRecording <=> (\E k \in 1..Len(recorders) : Active(k))
  /\ \A k \in 1..Len(recorders) :
       recorders[k] = "recording" => (isRecording /\ mediaRecorder = k)
  /\ Cardinality({k \in 1..Len(recorders) : Active(k)}) <= 1
(***************************************************************************)
(* Claims about command mode                                               *)
(***************************************************************************)
\* C29: after any sequence of clicks on the voice-command button, stops made
\* by the handlers, recognition errors and failed starts, the button's state
\* (commandModeActive, shown as 'Listening...') equals isCommandModeActive().
C29_ToggleConsistency == commandModeActive = isListening

\* the calls of the direct handlers that have ended
DirectCalls ==
  {n \in 1..Len(handled) : handled[n].handler \in {"transcribe", "list_models", "help"}}

\* C30: after handleTranscribeCommand, handleListModelsCommand or
\* handleHelpCommand has finished, with a result or with a failure (no
\* recorder, no audio, a request error), command mode is stopped:
\* isCommandModeActive() is false and exactly one 'stop' notification was
\* sent to onCommandDetected.
C30_CommandModeEnds ==
  \A n \in DirectCalls : ~handled[n].listening /\ handled[n].stops = 1

====
